---- MODULE Spec2Model ----
(***************************************************************************)
(* State-machine model of SRP_Spatial_Dashboard.py: the module-level load  *)
(* of MasterSRPDictionary.xlsx, the Dash callback update_views (filtering, *)
(* map, table, record counts, statistics) and the Dash callback            *)
(* download_data (CSV export of the filtered frame).                       *)
(*                                                                         *)
(* A DataFrame is a record [columns, rows]: the set of column names and    *)
(* the sequence of rows in file order.  A browser session holds the values *)
(* of the four filter controls and of the download button (controls), the  *)
(* five outputs of update_views (views) and the download-data output       *)
(* (download).  Dash runs a callback when one of its Inputs changes and    *)
(* once when the page is loaded; each action below is one such event       *)
(* together with the whole callback it triggers.                           *)
(***************************************************************************)
EXTENDS Integers, Sequences, FiniteSets, TLC

VARIABLES spreadsheet, phase, master_df, users, controls, views, download

vars == <<spreadsheet, phase, master_df, users, controls, views, download>>

(***************************************************************************)
(* Bounds of the model.                                                    *)
(***************************************************************************)
MaxLen == 2        \* rows in the spreadsheet
MaxClicks == 2     \* cap on the n_clicks counter of the download button

(***************************************************************************)
(* Values.                                                                 *)
(***************************************************************************)
\* None / "" as a date-picker value: falsy in `if start_date and end_date`
None == 0
\* pandas NaT: a missing Observation_Date; every comparison with it is False
NaT == -1
\* a missing (NaN) latitude or longitude
NaN == 1000

\* Dates are written yyyymmdd, so integer order is chronological order.
Users == {"u1", "u2"}

AllColumns == {"SRP_ID", "SRP_Num", "Scientific_Name", "Common_Name", "County",
               "Observation_Date",
               "Latitude_or_transect_start_latitude",
               "Longitude_or_transect_start_longitude"}

\* Rows a spreadsheet may hold: the two records of the survey scenario, a
\* record without a date and without a longitude, a record without a
\* latitude, a record without a date.
RowA == [SRP_Num |-> 100, Scientific_Name |-> "Ursus americanus",
         Observation_Date |-> 20230110,
         Latitude_or_transect_start_latitude |-> 30,
         Longitude_or_transect_start_longitude |-> -97]
RowB == [SRP_Num |-> 200, Scientific_Name |-> "Lynx rufus",
         Observation_Date |-> 20230601,
         Latitude_or_transect_start_latitude |-> 31,
         Longitude_or_transect_start_longitude |-> -98]
RowC == [SRP_Num |-> 100, Scientific_Name |-> "Lynx rufus",
         Observation_Date |-> NaT,
         Latitude_or_transect_start_latitude |-> 29,
         Longitude_or_transect_start_longitude |-> NaN]
RowD == [SRP_Num |-> 200, Scientific_Name |-> "Ursus americanus",
         Observation_Date |-> 20230601,
         Latitude_or_transect_start_latitude |-> NaN,
         Longitude_or_transect_start_longitude |-> -96]

RowE == [SRP_Num |-> 200, Scientific_Name |-> "Lynx rufus",
         Observation_Date |-> NaT,
         Latitude_or_transect_start_latitude |-> 28,
         Longitude_or_transect_start_longitude |-> -94]

Rows == {RowA, RowB, RowC, RowD, RowE}

\* Dates the user picks in the DatePickerRange.
PickableDates == {20230110, 20230601}

SeqsUpTo(S, n) == UNION {[1..k -> S] : k \in 0..n}

\* A spreadsheet has every column, or lacks exactly one.
ColumnChoices == {AllColumns} \cup {AllColumns \ {c} : c \in AllColumns}

Range(s) == {s[i] : i \in DOMAIN s}

(***************************************************************************)
(* Module level, lines 10-22 and the layout, lines 29-144.                 *)
(***************************************************************************)
\* Columns subscripted while the module is imported: a missing one raises
\* KeyError before the server starts.
LoadColumns == {"Longitude_or_transect_start_longitude",
                "Latitude_or_transect_start_latitude",
                "SRP_Num", "Scientific_Name", "Observation_Date"}

\* pd.read_excel: all columns, rows in file order
read_excel(file) == [columns |-> file.columns, rows |-> file.rows]

\* master_df["SRP_Num"].unique(): the options of the SRP dropdown
SrpOptions(df) == {df.rows[i].SRP_Num : i \in DOMAIN df.rows}

\* master_df["Scientific_Name"].unique()
SciOptions(df) == {df.rows[i].Scientific_Name : i \in DOMAIN df.rows}

ValidDates(df) == {df.rows[i].Observation_Date : i \in DOMAIN df.rows} \ {NaT}

\* master_df["Observation_Date"].min(): NaT is skipped; with no date at all
\* the result is NaT/NaN, which reaches the browser as null
MinDate(df) ==
    IF ValidDates(df) = {} THEN None
    ELSE CHOOSE d \in ValidDates(df) : \A e \in ValidDates(df) : d <= e

\* master_df["Observation_Date"].max()
MaxDate(df) ==
    IF ValidDates(df) = {} THEN None
    ELSE CHOOSE d \in ValidDates(df) : \A e \in ValidDates(df) : d >= e

(***************************************************************************)
(* The filter of update_views, lines 159-166.                              *)
(***************************************************************************)
\* a dropdown value is a set; None and [] are both the empty set
Truthy(selection) == selection # {}

\* the guard `if start_date and end_date`
DateActiveOr(start_date, end_date) == start_date # None \/ end_date # None
DateActive(start_date, end_date) == start_date # None /\ end_date # None

\* (Observation_Date >= start_date) & (Observation_Date <= end_date)
InDateRangeOpenEnd(d, start_date, end_date) ==
    d # NaT /\ d >= start_date /\ d < end_date
InDateRangeNotOutside(d, start_date, end_date) ==
    ~(d # NaT /\ d < start_date) /\ ~(d # NaT /\ d > end_date)
InDateRange(d, start_date, end_date) ==
    (d # NaT /\ d >= start_date) /\ (d # NaT /\ d <= end_date)

RECURSIVE ConcatPerValue(_, _)
ConcatPerValue(rows, values) ==
    IF values = {} THEN <<>>
    ELSE LET v == CHOOSE x \in values : \A y \in values : x <= y
             Test(r) == r.SRP_Num = v
         IN SelectSeq(rows, Test) \o ConcatPerValue(rows, values \ {v})

\* filtered_df[filtered_df["SRP_Num"].isin(selected_srp_nums)]
SrpNumIsinConcat(rows, selected_srp_nums) == ConcatPerValue(rows, selected_srp_nums)
SrpNumIsin(rows, selected_srp_nums) ==
    LET Test(r) == r.SRP_Num \in selected_srp_nums
    IN SelectSeq(rows, Test)

\* filtered_df[filtered_df["Scientific_Name"].isin(selected_scientific_names)]
ScientificNameIsin(rows, selected_scientific_names) ==
    LET Test(r) == r.Scientific_Name \in selected_scientific_names
    IN SelectSeq(rows, Test)

DateBetween(rows, start_date, end_date) ==
    LET Test(r) == InDateRange(r.Observation_Date, start_date, end_date)
    IN SelectSeq(rows, Test)

update_views_filter(df, selected_srp_nums, selected_scientific_names, start_date, end_date) ==
    LET f0 == df.rows
        f1 == IF Truthy(selected_srp_nums)
              THEN SrpNumIsin(f0, selected_srp_nums) ELSE f0
        f2 == IF Truthy(selected_scientific_names)
              THEN ScientificNameIsin(f1, selected_scientific_names) ELSE f1
        f3 == IF DateActive(start_date, end_date)
              THEN DateBetween(f2, start_date, end_date) ELSE f2
    IN [columns |-> df.columns, rows |-> f3]

(***************************************************************************)
(* The projections of update_views, lines 168-202.                         *)
(***************************************************************************)
\* columns px.scatter_mapbox is told to read: lat, lon and hover_data
MapColumns == {"Latitude_or_transect_start_latitude",
               "Longitude_or_transect_start_longitude",
               "SRP_ID", "Scientific_Name", "Common_Name", "County", "SRP_Num"}

\* px.scatter_mapbox raises ValueError when a named column is not in the frame
ScatterMapboxRaises(df) == ~(MapColumns \subseteq df.columns)

\* the points the map draws: a marker whose lat or lon is NaN is not drawn
MapPointsAll(df) == df.rows
MapPoints(df) ==
    LET Test(r) == /\ r.Latitude_or_transect_start_latitude # NaN
                   /\ r.Longitude_or_transect_start_longitude # NaN
    IN SelectSeq(df.rows, Test)

\* html.Tbody: one html.Tr per row of filtered_df.iterrows()
TableRows(df) == df.rows

\* len(filtered_df)
RecordCount(df) == Len(df.rows)

\* len(unique()) of SRP_Num and of Scientific_Name
Statistics(df) == [srp_numbers |-> Cardinality(SrpOptions(df)),
                   scientific_names |-> Cardinality(SciOptions(df))]

\* return fig_map, table, record_count, record_count, stats_table
UpdateViewsReturnMapCount(fig_map, table, record_count, stats_table) ==
    [rendered |-> TRUE, spatial_map |-> fig_map, table_output |-> table,
     record_count |-> Len(fig_map), table_record_count |-> record_count,
     statistics_output |-> stats_table]
UpdateViewsReturn(fig_map, table, record_count, stats_table) ==
    [rendered |-> TRUE, spatial_map |-> fig_map, table_output |-> table,
     record_count |-> record_count, table_record_count |-> record_count,
     statistics_output |-> stats_table]

\* the outputs before any callback has returned
NotRendered == [rendered |-> FALSE, spatial_map |-> <<>>, table_output |-> <<>>,
                record_count |-> 0, table_record_count |-> 0,
                statistics_output |-> [srp_numbers |-> 0, scientific_names |-> 0]]

\* the whole callback; a raised exception leaves the outputs as they were
update_views(df, old, selected_srp_nums, selected_scientific_names, start_date, end_date) ==
    LET filtered_df == update_views_filter(df, selected_srp_nums,
                           selected_scientific_names, start_date, end_date)
    IN IF ScatterMapboxRaises(filtered_df) THEN old
       ELSE UpdateViewsReturn(MapPoints(filtered_df), TableRows(filtered_df),
                              RecordCount(filtered_df), Statistics(filtered_df))

(***************************************************************************)
(* download_data, lines 213-228.                                           *)
(***************************************************************************)
download_data_filterNoDate(df, selected_srp_nums, selected_scientific_names, start_date, end_date) ==
    LET f0 == df.rows
        f1 == IF Truthy(selected_srp_nums)
              THEN SrpNumIsin(f0, selected_srp_nums) ELSE f0
        f2 == IF Truthy(selected_scientific_names)
              THEN ScientificNameIsin(f1, selected_scientific_names) ELSE f1
    IN [columns |-> df.columns, rows |-> f2]
download_data_filter(df, selected_srp_nums, selected_scientific_names, start_date, end_date) ==
    LET f0 == df.rows
        f1 == IF Truthy(selected_srp_nums)
              THEN SrpNumIsin(f0, selected_srp_nums) ELSE f0
        f2 == IF Truthy(selected_scientific_names)
              THEN ScientificNameIsin(f1, selected_scientific_names) ELSE f1
        f3 == IF DateActive(start_date, end_date)
              THEN DateBetween(f2, start_date, end_date) ELSE f2
    IN [columns |-> df.columns, rows |-> f3]

\* dcc.send_data_frame(filtered_df.to_csv, "filtered_srp_data.csv", index=False):
\* a header line of the column names, then one line per row
send_data_frame(df) == [emitted |-> TRUE, filename |-> "filtered_srp_data.csv",
                        header |-> df.columns, lines |-> df.rows]

\* dash.no_update: the output keeps its value
NoDownload == [emitted |-> FALSE, filename |-> "", header |-> {}, lines |-> <<>>]

\* number of text lines of the exported file
CsvLineCount(d) == 1 + Len(d.lines)

download_data_unguarded(df, old, n_clicks, selected_srp_nums, selected_scientific_names, start_date, end_date) ==
    send_data_frame(download_data_filter(df, selected_srp_nums,
                        selected_scientific_names, start_date, end_date))
download_data(df, old, n_clicks, selected_srp_nums, selected_scientific_names, start_date, end_date) ==
    IF n_clicks = 0 THEN old
    ELSE send_data_frame(download_data_filter(df, selected_srp_nums,
                             selected_scientific_names, start_date, end_date))

\* Neither callback assigns the global: both work on master_df.copy()
master_df_overwritten(df, filtered_rows) == [columns |-> df.columns, rows |-> filtered_rows]
master_df_after(df, filtered_rows) == df

(***************************************************************************)
(* State machine.                                                          *)
(***************************************************************************)
NoFrame == [columns |-> {}, rows |-> <<>>]

NoControls == [loaded |-> FALSE, srp_num_filter |-> {}, scientific_name_filter |-> {},
               start_date |-> None, end_date |-> None, n_clicks |-> 0]

InitWith(file, us) ==
    /\ spreadsheet = file
    /\ phase = "start"
    /\ master_df = NoFrame
    /\ users = us
    /\ controls = [u \in us |-> NoControls]
    /\ views = [u \in us |-> NotRendered]
    /\ download = [u \in us |-> NoDownload]

\* one browser session, any spreadsheet
Init ==
    \E cols \in ColumnChoices, rows \in SeqsUpTo(Rows, MaxLen) :
        InitWith([columns |-> cols, rows |-> rows], {"u1"})

\* two browser sessions on one complete spreadsheet of two rows
InitMulti == InitWith([columns |-> AllColumns, rows |-> <<RowA, RowD>>], Users)

\* Import of the module: read the file, build the GeoDataFrame and the layout.
Load ==
    /\ phase = "start"
    /\ IF LoadColumns \subseteq spreadsheet.columns
       THEN /\ master_df' = read_excel(spreadsheet)
            /\ phase' = "serving"
       ELSE /\ master_df' = master_df
            /\ phase' = "failed"
    /\ UNCHANGED <<spreadsheet, users, controls, views, download>>

\* The callbacks Dash fires for session u after its controls became c.
RunUpdateViews(u, c) ==
    /\ views' = [views EXCEPT ![u] =
           update_views(master_df, views[u], c.srp_num_filter,
                        c.scientific_name_filter, c.start_date, c.end_date)]
    /\ master_df' = master_df_after(master_df,
           update_views_filter(master_df, c.srp_num_filter,
               c.scientific_name_filter, c.start_date, c.end_date).rows)

RunDownloadData(u, c) ==
    download' = [download EXCEPT ![u] =
        download_data(master_df, download[u], c.n_clicks, c.srp_num_filter,
                      c.scientific_name_filter, c.start_date, c.end_date)]

\* A browser opens the page: the layout's initial values, then both callbacks
\* fire once (n_clicks is None).
PageLoad(u) ==
    /\ phase = "serving"
    /\ ~controls[u].loaded
    /\ LET c == [loaded |-> TRUE, srp_num_filter |-> {},
                 scientific_name_filter |-> {},
                 start_date |-> MinDate(master_df),
                 end_date |-> MaxDate(master_df), n_clicks |-> 0]
       IN /\ controls' = [controls EXCEPT ![u] = c]
          /\ RunUpdateViews(u, c)
          /\ RunDownloadData(u, c)
    /\ UNCHANGED <<spreadsheet, phase, users>>

ChangeFilter(u, c) ==
    /\ phase = "serving"
    /\ controls[u].loaded
    /\ controls' = [controls EXCEPT ![u] = c]
    /\ RunUpdateViews(u, c)
    /\ UNCHANGED <<spreadsheet, phase, users, download>>

SetSrpNumFilter(u) ==
    \E sel \in SUBSET SrpOptions(master_df) :
        /\ sel # controls[u].srp_num_filter
        /\ ChangeFilter(u, [controls[u] EXCEPT !.srp_num_filter = sel])

SetScientificNameFilter(u) ==
    \E sel \in SUBSET SciOptions(master_df) :
        /\ sel # controls[u].scientific_name_filter
        /\ ChangeFilter(u, [controls[u] EXCEPT !.scientific_name_filter = sel])

SetStartDate(u) ==
    \E d \in PickableDates :
        /\ d # controls[u].start_date
        /\ ChangeFilter(u, [controls[u] EXCEPT !.start_date = d])

SetEndDate(u) ==
    \E d \in PickableDates :
        /\ d # controls[u].end_date
        /\ ChangeFilter(u, [controls[u] EXCEPT !.end_date = d])

\* A click on "Download Filtered Data": n_clicks is the Input, the filters are State.
ClickDownload(u) ==
    /\ phase = "serving"
    /\ controls[u].loaded
    /\ controls[u].n_clicks < MaxClicks
    /\ LET c == [controls[u] EXCEPT !.n_clicks = @ + 1]
       IN /\ controls' = [controls EXCEPT ![u] = c]
          /\ RunDownloadData(u, c)
          /\ master_df' = master_df_after(master_df,
                 download_data_filter(master_df, c.srp_num_filter,
                     c.scientific_name_filter, c.start_date, c.end_date).rows)
    /\ UNCHANGED <<spreadsheet, phase, users, views>>

Next ==
    \/ Load
    \/ \E u \in users : PageLoad(u)
    \/ \E u \in users : SetSrpNumFilter(u)
    \/ \E u \in users : SetScientificNameFilter(u)
    \/ \E u \in users : SetStartDate(u)
    \/ \E u \in users : SetEndDate(u)
    \/ \E u \in users : ClickDownload(u)

Spec == Init /\ [][Next]_vars

SpecMulti == InitMulti /\ [][Next]_vars

(***************************************************************************)
(* Properties.                                                             *)
(***************************************************************************)
Rendered == {u \in users : views[u].rendered}

\* The predicate of the specification: every active constraint is satisfied.
Satisfies(r, c) ==
    /\ c.srp_num_filter # {} => r.SRP_Num \in c.srp_num_filter
    /\ c.scientific_name_filter # {} => r.Scientific_Name \in c.scientific_name_filter
    /\ (c.start_date # None /\ c.end_date # None) =>
           /\ r.Observation_Date # NaT
           /\ c.start_date <= r.Observation_Date
           /\ r.Observation_Date <= c.end_date

SatisfyingRows(rows, c) == LET Test(r) == Satisfies(r, c) IN SelectSeq(rows, Test)

RECURSIVE IsSubsequence(_, _)
IsSubsequence(s, t) ==
    IF s = <<>> THEN TRUE
    ELSE IF t = <<>> THEN FALSE
    ELSE IF Head(s) = Head(t) THEN IsSubsequence(Tail(s), Tail(t))
    ELSE IsSubsequence(s, Tail(t))

OneBoundOnly(c) == (c.start_date = None) # (c.end_date = None)

\* C1: the collection update_views filters holds exactly the records of
\* master_df that satisfy every active predicate (SRP membership, name
\* membership, start <= date <= end when both bounds are given); with no
\* constraint it is the whole of master_df.
C1_ExactlyTheSatisfyingRecords ==
    \A u \in Rendered :
        /\ views[u].table_output = SatisfyingRows(master_df.rows, controls[u])
        /\ (/\ controls[u].srp_num_filter = {}
            /\ controls[u].scientific_name_filter = {}
            /\ ~(controls[u].start_date # None /\ controls[u].end_date # None))
           => views[u].table_output = master_df.rows

C1_Witness ==
    \E u \in Rendered :
        /\ controls[u].srp_num_filter # {}
        /\ controls[u].scientific_name_filter # {}
        /\ controls[u].start_date # None /\ controls[u].end_date # None
        /\ views[u].table_output # <<>>
        /\ Len(views[u].table_output) < Len(master_df.rows)

\* C2: with only one bound of the date range set, the filtered collection
\* is the one obtained with no date range at all, whatever the SRP and name
\* selections.
C2_OneBoundIsNoDateFilter ==
    \A u \in Rendered :
        OneBoundOnly(controls[u]) =>
            views[u].table_output =
                update_views_filter(master_df, controls[u].srp_num_filter,
                    controls[u].scientific_name_filter, None, None).rows

C2_Witness ==
    \E u \in Rendered :
        /\ controls[u].start_date # None /\ controls[u].end_date = None
        /\ controls[u].srp_num_filter # {}
        /\ views[u].table_output # <<>>
        /\ Len(views[u].table_output) < Len(master_df.rows)

\* C3: a record without Observation_Date is not in the filtered collection
\* when both date bounds are given, and is in it when the date predicate is
\* inactive and the record passes the SRP and name selections.
C3_MissingDate ==
    \A u \in Rendered : \A i \in DOMAIN master_df.rows :
        LET r == master_df.rows[i]
            c == controls[u]
            active == c.start_date # None /\ c.end_date # None
        IN r.Observation_Date = NaT =>
              /\ active => r \notin Range(views[u].table_output)
              /\ (/\ ~active
                  /\ c.srp_num_filter # {} => r.SRP_Num \in c.srp_num_filter
                  /\ c.scientific_name_filter # {} =>
                         r.Scientific_Name \in c.scientific_name_filter)
                 => r \in Range(views[u].table_output)

C3_Witness ==
    \E u \in Rendered : \E i \in DOMAIN master_df.rows :
        /\ master_df.rows[i].Observation_Date = NaT
        /\ controls[u].start_date # None /\ controls[u].end_date # None
        /\ controls[u].srp_num_filter = {}
        /\ controls[u].scientific_name_filter = {}
        /\ views[u].table_output # <<>>
        /\ master_df.rows[i] \notin Range(views[u].table_output)

\* C4: the filtered collection is a subsequence of master_df: no foreign
\* record, no more records than master_df, same relative order.
C4_StableSubsequence ==
    \A u \in Rendered :
        /\ Range(views[u].table_output) \subseteq Range(master_df.rows)
        /\ Len(views[u].table_output) <= Len(master_df.rows)
        /\ IsSubsequence(views[u].table_output, master_df.rows)

C4_Witness ==
    \E u \in Rendered :
        /\ controls[u].srp_num_filter # {}
        /\ Len(views[u].table_output) = 2
        /\ views[u].table_output[1].SRP_Num > views[u].table_output[2].SRP_Num

\* C5: the two displayed record counts are equal, and equal to the length
\* of the filtered collection of the current filter state.
C5_RecordCountsAgree ==
    \A u \in Rendered :
        /\ views[u].record_count = views[u].table_record_count
        /\ views[u].record_count = Len(SatisfyingRows(master_df.rows, controls[u]))

C5_Witness ==
    \E u \in Rendered :
        /\ controls[u].scientific_name_filter # {}
        /\ views[u].record_count = 2
        /\ views[u].table_record_count = 2
        /\ Len(views[u].spatial_map) < 2

\* C6: a session has export output exactly when its download button has
\* been clicked; the export after a click exists also when the filtered
\* collection is empty (header line only).
C6_ExportIffClicked ==
    \A u \in users :
        controls[u].loaded =>
            /\ download[u].emitted <=> controls[u].n_clicks > 0
            /\ download[u].emitted =>
                   /\ download[u].filename = "filtered_srp_data.csv"
                   /\ download[u].header = master_df.columns

C6_Witness ==
    \E u \in users :
        /\ controls[u].n_clicks > 0
        /\ download[u].emitted
        /\ download[u].lines = <<>>
        /\ CsvLineCount(download[u]) = 1
        /\ master_df.rows # <<>>

\* C7: the collection download_data serialises on a click is the collection
\* update_views computes for the filter state of that moment, which is the
\* one shown in the table; the file has one line per record plus a header.
C7_ExportIsTheViewedCollection ==
    [][\A u \in users :
          controls'[u].n_clicks # controls[u].n_clicks =>
              /\ download'[u].emitted
              /\ download'[u].lines =
                     update_views_filter(master_df, controls[u].srp_num_filter,
                         controls[u].scientific_name_filter,
                         controls[u].start_date, controls[u].end_date).rows
              /\ views[u].rendered =>
                     /\ download'[u].lines = views[u].table_output
                     /\ CsvLineCount(download'[u]) = views[u].record_count + 1]_vars

C7_Witness ==
    \E u \in Rendered :
        /\ download[u].emitted
        /\ controls[u].start_date # None /\ controls[u].end_date # None
        /\ download[u].lines = views[u].table_output
        /\ Len(download[u].lines) = 1
        /\ Len(master_df.rows) = 2

RequiredColumns == {"SRP_Num", "Scientific_Name", "Common_Name", "County",
                    "Observation_Date",
                    "Latitude_or_transect_start_latitude",
                    "Longitude_or_transect_start_longitude"}

\* C9: the dashboard never serves callbacks over a record store that lacks
\* a required column (SRP number, scientific name, common name, county,
\* observation date, latitude, longitude): loading fails first.
C9_LoadRejectsMissingColumn ==
    (phase = "serving" \/ \E u \in users : controls[u].loaded)
        => RequiredColumns \subseteq spreadsheet.columns

\* C10: master_df stays the collection read at load time under every
\* interleaving of the callbacks of the sessions, and what each session
\* shows is a function of its own filter inputs and that collection.
C10_RecordStoreReadOnly ==
    phase = "serving" =>
        /\ master_df = read_excel(spreadsheet)
        /\ \A u \in Rendered :
              views[u] = update_views(read_excel(spreadsheet), views[u],
                             controls[u].srp_num_filter,
                             controls[u].scientific_name_filter,
                             controls[u].start_date, controls[u].end_date)
        /\ \A u \in users :
              download[u].emitted =>
                  IsSubsequence(download[u].lines, spreadsheet.rows)

C10_Witness ==
    /\ phase = "serving"
    /\ \A u \in users : views[u].rendered /\ download[u].emitted
    /\ \E u, v \in users :
          /\ controls[u].srp_num_filter # controls[v].srp_num_filter
          /\ views[u].table_output = <<RowA>>
          /\ views[v].table_output = <<RowD>>
          /\ download[u].lines = <<RowD>>
    /\ master_df.rows = <<RowA, RowD>>

====
